---- MODULE Spec2Model ----
(***************************************************************************)
(* Lead-qualification funnel of procto-bo: the spreadsheet lead store      *)
(* (sheets.py), the Skillspace webhook and the intake completion callback  *)
(* (app.py).                                                               *)
(*                                                                         *)
(* Representation.                                                         *)
(*  - A cell of the worksheet is a string.  `sheet` holds rows 2.. of the  *)
(*    worksheet (sheet[i] is worksheet row i+1), each row by column name;  *)
(*    `header_row` holds the cells of row 1, which are REQUIRED_HEADERS    *)
(*    wherever records are stored, and no searched value of the input sets *)
(*    below is a header name.  Row number 0 stands for Python's None.      *)
(*  - Scores and thresholds are numbers in hundredths (9200 is 92.0).      *)
(*  - A JSON payload is a function from dotted paths to JSON values; a     *)
(*    path outside its domain is a missing key.                            *)
(*  - utc_iso() is the counter `clock`, rendered "T<n>".                   *)
(***************************************************************************)
EXTENDS Integers, Sequences, FiniteSets, TLC

(* ---------------- bounds ---------------- *)
MaxClock == 3
MaxFaultCell == 1

(* ---------------- sheets.py : schema ---------------- *)
REQUIRED_HEADERS ==
  << "created_at", "updated_at", "telegram_id", "email", "age", "gender",
     "country", "language", "english_level", "amazon_experience", "stage",
     "last_event", "lesson_score", "lesson_id", "course_id" >>

HeaderSet == { REQUIRED_HEADERS[i] : i \in DOMAIN REQUIRED_HEADERS }

None == 0

(* str(int) and its inverse on the cells that hold digits only *)
IntRange == 0 .. 99
isdigit(s) == \E n \in IntRange : ToString(n) = s
int(s) == CHOOSE n \in IntRange : ToString(n) = s

utc_iso(n) == "T" \o ToString(n)

(* str(float): hundredths rendered as <integer part>.<hundredths> *)
str_float(n) == ToString(n \div 100) \o "." \o ToString(n % 100)

(* str.strip() on the raw strings of the input sets *)
strip(s) ==
  CASE s = " a@x.c " -> "a@x.c"
    [] s = " b@x.c " -> "b@x.c"
    [] s = "  " -> ""
    [] s = " C1 " -> "C1"
    [] s = " email " -> "email"
    [] OTHER -> s

(* ---------------- sheets.py : _ensure_schema ---------------- *)
(* A header row is the sequence of the cells of worksheet row 1.           *)
(* ws.row_values(1): the cells up to the last non-empty one                *)
RECURSIVE row_values(_)
row_values(cells) ==
  IF cells = << >> THEN << >>
  ELSE IF cells[Len(cells)] = "" THEN row_values(SubSeq(cells, 1, Len(cells) - 1))
  ELSE cells

(* ws.update("A1:<n>1", [new_headers]) with n = len(new_headers): the      *)
(* first n cells of the row are written, the cells after them are kept      *)
ws_update_row(cells, new_headers) ==
  [i \in 1 .. (IF Len(cells) > Len(new_headers) THEN Len(cells) ELSE Len(new_headers)) |->
     IF i <= Len(new_headers) THEN new_headers[i] ELSE cells[i]]

(* the header row after _ensure_schema *)
_ensure_schema(cells) ==
  LET headers == row_values(cells)
      stripped == [i \in DOMAIN headers |-> strip(headers[i])]
      named(h) == h # ""
      existing == SelectSeq(stripped, named)
      absent(h) == \A i \in DOMAIN existing : existing[i] # h
      missing == SelectSeq(REQUIRED_HEADERS, absent)
  IN IF headers = << >> THEN REQUIRED_HEADERS
     ELSE IF missing = << >> THEN cells
     ELSE ws_update_row(cells, existing \o missing)

(* ---------------- sheets.py : store faults ---------------- *)
(* A call to the spreadsheet API may raise.  at = "open": _get_ws raises;  *)
(* at = "find": ws.find raises; at = "cell": the (k+1)-th cell write of    *)
(* the call raises, after k cells were written.                            *)
NoFault == [at |-> "none", k |-> 0]
Faults ==
  { NoFault, [at |-> "open", k |-> 0], [at |-> "find", k |-> 0] }
    \cup { [at |-> "cell", k |-> k] : k \in 0 .. MaxFaultCell }

(* ---------------- sheets.py : find helpers ---------------- *)
(* ws.find(query): the row of the first cell, in row order, whose value    *)
(* equals query; any column matches                                        *)
RECURSIVE scan_rows(_, _, _)
scan_rows(ws, query, i) ==
  IF i > Len(ws) THEN None
  ELSE IF \E h \in HeaderSet : ws[i][h] = query THEN i
  ELSE scan_rows(ws, query, i + 1)

ws_find(ws, query) == scan_rows(ws, query, 1)

(* a lookup that never finds the email *)
_find_row_by_email_blind(ws, email, fault) == None

_find_row_by_email(ws, email, fault) ==
  IF email = "" THEN None
  ELSE IF fault.at = "find" THEN None
  ELSE ws_find(ws, email)

_find_row_by_telegram(ws, telegram_id, fault) ==
  IF fault.at = "find" THEN None ELSE ws_find(ws, ToString(telegram_id))

(* the first k keys of `keys` written into `row` from `vals` *)
update_cells(row, keys, vals, k) ==
  [h \in HeaderSet |->
     IF \E i \in 1 .. k : i <= Len(keys) /\ keys[i] = h THEN vals[h] ELSE row[h]]

(* ---------------- sheets.py : public ops ---------------- *)
(* Each returns [ws: the worksheet after the call, raised: whether the     *)
(* call raised, ret: the returned value].                                  *)
values_map(lead, now_iso) ==
  [h \in HeaderSet |->
     CASE h = "created_at" -> now_iso
       [] h = "updated_at" -> now_iso
       [] h = "telegram_id" -> ToString(lead.telegram_id)
       [] h = "email" -> lead.email
       [] h = "age" -> lead.age
       [] h = "gender" -> lead.gender
       [] h = "country" -> lead.country
       [] h = "language" -> lead.language
       [] h = "english_level" -> lead.english_level
       [] h = "amazon_experience" -> lead.amazon_experience
       [] h = "stage" -> lead.stage
       [] OTHER -> ""]

(* an update that stamps the record anew *)
created_at_restamped(existing_created, now_iso) == now_iso

(* lines 176-180: an existing non-empty created_at is written back *)
created_at_kept(existing_created, now_iso) ==
  IF existing_created # "" THEN existing_created ELSE now_iso

upsert_lead(ws, lead, now_iso, fault) ==
  LET byEmail == _find_row_by_email(ws, lead.email, fault)
      row == IF byEmail # None THEN byEmail
             ELSE _find_row_by_telegram(ws, lead.telegram_id, fault)
      vm == values_map(lead, now_iso)
  IN
  IF fault.at = "open" THEN [ws |-> ws, raised |-> TRUE, ret |-> None]
  ELSE IF row = None THEN
    IF fault.at = "cell" /\ fault.k = 0
      THEN [ws |-> ws, raised |-> TRUE, ret |-> None]
      ELSE [ws |-> Append(ws, vm),
            raised |-> (fault.at = "cell"),
            ret |-> Len(ws) + 1]
  ELSE
    LET existing_created == strip(ws[row].created_at)
        vm2 == [vm EXCEPT !["created_at"] = created_at_kept(existing_created, now_iso)]
        k == IF fault.at = "cell" THEN fault.k ELSE Len(REQUIRED_HEADERS)
    IN [ws |-> [ws EXCEPT ![row] = update_cells(ws[row], REQUIRED_HEADERS, vm2, k)],
        raised |-> (fault.at = "cell"),
        ret |-> row]

(* a store update that appends the updated record instead of writing it in place *)
update_from_skillspace_appending(ws, email, stage, now_iso, event_name, lesson_score, lesson_id, course_id, fault) ==
  LET row == _find_row_by_email(ws, email, fault)
  IN IF row = None THEN [ws |-> ws, raised |-> FALSE, ret |-> None]
     ELSE [ws |-> Append(ws, [ws[row] EXCEPT !.stage = stage,
                                             !.updated_at = now_iso,
                                             !.last_event = event_name]),
           raised |-> FALSE, ret |-> Len(ws) + 1]

SkillspaceKeys ==
  << "updated_at", "stage", "last_event", "lesson_score", "lesson_id", "course_id" >>

(* lesson_score, lesson_id, course_id: [some: BOOLEAN, v: value] *)
(* lines 208-215: the cells update_from_skillspace writes *)
skillspace_updates(stage, now_iso, event_name, lesson_score, lesson_id, course_id) ==
  [h \in HeaderSet |->
     CASE h = "updated_at" -> now_iso
       [] h = "stage" -> stage
       [] h = "last_event" -> event_name
       [] h = "lesson_score" ->
            IF lesson_score.some THEN str_float(lesson_score.v) ELSE ""
       [] h = "lesson_id" -> IF lesson_id.some THEN lesson_id.v ELSE ""
       [] h = "course_id" -> IF course_id.some THEN course_id.v ELSE ""
       [] OTHER -> ""]

update_from_skillspace(ws, email, stage, now_iso, event_name, lesson_score, lesson_id, course_id, fault) ==
  LET row == _find_row_by_email(ws, email, fault)
      updates == skillspace_updates(stage, now_iso, event_name, lesson_score, lesson_id, course_id)
      k == IF fault.at = "cell" THEN fault.k ELSE Len(SkillspaceKeys)
  IN
  IF fault.at = "open" THEN [ws |-> ws, raised |-> TRUE, ret |-> None]
  ELSE IF row = None THEN [ws |-> ws, raised |-> FALSE, ret |-> None]
  ELSE [ws |-> [ws EXCEPT ![row] = update_cells(ws[row], SkillspaceKeys, updates, k)],
        raised |-> (fault.at = "cell"),
        ret |-> row]

(* ret: the chat-user identifier, -1 for Python's None *)
NoTelegram == -1

(* a lookup that answers with a chat user when the email has no record *)
get_telegram_id_by_email_default(ws, email, fault) ==
  LET row == _find_row_by_email(ws, email, fault)
  IN [raised |-> FALSE,
      ret |-> IF row = None THEN 7 ELSE int(strip(ws[row].telegram_id))]

get_telegram_id_by_email(ws, email, fault) ==
  LET row == _find_row_by_email(ws, email, fault)
      val == strip(ws[row].telegram_id)
  IN
  IF fault.at = "open" THEN [raised |-> TRUE, ret |-> NoTelegram]
  ELSE IF row = None THEN [raised |-> FALSE, ret |-> NoTelegram]
  ELSE IF fault.at = "cell" THEN [raised |-> TRUE, ret |-> NoTelegram]
  ELSE [raised |-> FALSE, ret |-> IF isdigit(val) THEN int(val) ELSE NoTelegram]

(* ---------------- JSON values ---------------- *)
(* t: "null", "str" (s), "int" (n), "float" (n, in hundredths), "obj",     *)
(* "arr"                                                                   *)
JNull == [t |-> "null", s |-> "", n |-> 0]
JStr(s) == [t |-> "str", s |-> s, n |-> 0]
JInt(n) == [t |-> "int", s |-> "", n |-> n]
JFloat(n) == [t |-> "float", s |-> "", n |-> n]
JObj == [t |-> "obj", s |-> "", n |-> 0]
JArr == [t |-> "arr", s |-> "", n |-> 0]

(* a request body whose top level is the value v, not an object: the       *)
(* value sits at the empty path, which no object holds                     *)
TopLevel(v) == "" :> v
isinstance_dict(payload) == "" \notin DOMAIN payload

(* an optional value: Python's None or a value *)
Nothing == [some |-> FALSE, v |-> 0]
NothingStr == [some |-> FALSE, v |-> ""]
Some(v) == [some |-> TRUE, v |-> v]

(* ---------------- app.py : payload parsing ---------------- *)
(* deep_get: the value at the path, JNull (Python's None) when a key of    *)
(* the path is missing or an intermediate value is not a dict              *)
deep_get(d, path) == IF path \in DOMAIN d THEN d[path] ELSE JNull

(* the first index of a sequence of booleans that holds TRUE, 0 if none:   *)
(* `for path in (...)` returning at the first match                        *)
first_true(flags) ==
  IF \E i \in DOMAIN flags : flags[i]
    THEN CHOOSE i \in DOMAIN flags : flags[i] /\ \A j \in DOMAIN flags : flags[j] => i <= j
    ELSE 0

EventKeys == << "event", "type", "event_name", "name" >>

(* lines 58-59: payload.get(k) raises AttributeError when the payload is   *)
(* not a dict                                                              *)
extract_skillspace_event_raises(payload) == ~isinstance_dict(payload)

extract_skillspace_event(payload) ==
  LET nonEmptyStr(v) == v.t = "str" /\ v.s # ""
      i == first_true([k \in DOMAIN EventKeys |-> nonEmptyStr(deep_get(payload, EventKeys[k]))])
      v == deep_get(payload, "data.event")
  IN IF i # 0 THEN payload[EventKeys[i]].s
     ELSE IF v.t = "str" THEN v.s ELSE ""

EmailPaths ==
  << "user.email", "student.email", "data.user.email", "data.student.email",
     "email", "data.email" >>

(* an extraction that takes a blank string for an email *)
extract_email_unstripped(payload) ==
  LET isStr(v) == v.t = "str" /\ v.s # ""
      i == first_true([k \in DOMAIN EmailPaths |-> isStr(deep_get(payload, EmailPaths[k]))])
  IN IF i # 0 THEN payload[EmailPaths[i]].s ELSE ""

(* returns "" for Python's None: the caller only tests `not email` *)
extract_email(payload) ==
  LET hasText(v) == v.t = "str" /\ strip(v.s) # ""
      i == first_true([k \in DOMAIN EmailPaths |-> hasText(deep_get(payload, EmailPaths[k]))])
  IN IF i # 0 THEN strip(payload[EmailPaths[i]].s) ELSE ""

(* float(x): [some |-> FALSE] when float() raises *)
float_of_str(s) ==
  CASE s = "80" -> Some(8000)
    [] s = "0.5" -> Some(50)
    [] OTHER -> Nothing

float(v) ==
  CASE v.t = "int" -> Some(v.n * 100)
    [] v.t = "float" -> Some(v.n)
    [] v.t = "str" -> float_of_str(v.s)
    [] OTHER -> Nothing

(* a normalisation that takes 1.0 for a fraction as well *)
extract_lesson_score_inclusive(payload) ==
  LET s1 == deep_get(payload, "lesson.score")
      score == IF s1.t = "null" THEN deep_get(payload, "data.lesson.score") ELSE s1
      sc == float(score)
  IN IF score.t = "null" THEN Nothing
     ELSE IF ~sc.some THEN Nothing
     ELSE IF 0 <= sc.v /\ sc.v <= 100 THEN Some(sc.v * 100)
     ELSE sc

extract_lesson_score(payload) ==
  LET s1 == deep_get(payload, "lesson.score")
      score == IF s1.t = "null" THEN deep_get(payload, "data.lesson.score") ELSE s1
      sc == float(score)
  IN IF score.t = "null" THEN Nothing
     ELSE IF ~sc.some THEN Nothing
     ELSE IF 0 <= sc.v /\ sc.v <= 100 /\ sc.v # 100 THEN Some(sc.v * 100)
     ELSE sc

(* str(v) of a JSON value *)
str(v) ==
  CASE v.t = "str" -> v.s
    [] v.t = "int" -> ToString(v.n)
    [] v.t = "float" -> str_float(v.n)
    [] v.t = "arr" -> "[]"
    [] OTHER -> "{}"

LessonIdPaths == << "lesson.id", "data.lesson.id", "lesson.lesson_id" >>
CourseIdPaths == << "course.id", "data.course.id", "course_id", "data.course_id" >>

extract_id(payload, paths) ==
  LET notNone(v) == v.t # "null"
      i == first_true([k \in DOMAIN paths |-> notNone(deep_get(payload, paths[k]))])
  IN IF i # 0 THEN Some(str(payload[paths[i]])) ELSE NothingStr

extract_lesson_id(payload) == extract_id(payload, LessonIdPaths)

extract_course_id(payload) == extract_id(payload, CourseIdPaths)

(* ---------------- app.py : score classification ---------------- *)
(* a classification whose bands exclude their lower edge *)
classify_exclusive(score, pass_thr, great_thr) ==
  IF score.some /\ score.v > great_thr THEN "TEST_GREAT"
  ELSE IF score.some /\ score.v > pass_thr THEN "TEST_PASSED"
  ELSE "TEST_FAILED"

(* lines 352-356 of skillspace_webhook; score is an optional number *)
classify(score, pass_thr, great_thr) ==
  IF score.some /\ score.v >= great_thr THEN "TEST_GREAT"
  ELSE IF score.some /\ score.v >= pass_thr THEN "TEST_PASSED"
  ELSE "TEST_FAILED"

(* a composer that sends the contact text whatever the outcome *)
compose_contact_only(score, stage) == "contact"

(* the notification text variant, lines 386-407 *)
compose(score, stage) ==
  IF ~score.some THEN "no_score"
  ELSE IF stage = "TEST_GREAT" THEN "great"
  ELSE IF stage = "TEST_PASSED" THEN "passed"
  ELSE "contact"

(* ---------------- inputs ---------------- *)
Emails == { "a@x.c", "b@x.c" }
TelegramIds == { 7, 8 }
Tokens == { "secret", "wrong" }

EmptyPayload == [p \in {} |-> JNull]

(* the parts a payload is put together from *)
EvTestEnd == "event" :> JStr("test-end")
EvByType == ("event" :> JStr("")) @@ ("type" :> JStr("test-end"))
EvOther == "event" :> JStr("lesson-end")
EmailA == "user.email" :> JStr("a@x.c")
EmailB == ("student.email" :> JStr("  ")) @@ ("email" :> JStr(" b@x.c "))
EmailBlank == "user.email" :> JStr("  ")
ScoreGreat == "lesson.score" :> JStr("80")
ScorePass == ("lesson.score" :> JNull) @@ ("data.lesson.score" :> JStr("0.5"))
ScoreFail == "lesson.score" :> JFloat(4999)
ScoreText == "lesson.score" :> JStr("abc")
Lesson7 == "lesson.id" :> JInt(7)
CourseC1 == "course.id" :> JStr("C1")
CourseC2 == ("course.id" :> JNull) @@ ("course_id" :> JStr("C2"))
CourseEmpty == "course.id" :> JStr("")

Payloads ==
  { EvTestEnd @@ EmailA @@ ScoreGreat @@ Lesson7 @@ CourseC1,
    EvByType @@ EmailB @@ ScorePass,
    EvTestEnd @@ EmailA @@ CourseC1,
    EvTestEnd @@ EmailA @@ ScoreText @@ Lesson7,
    EvTestEnd @@ EmailA @@ ScoreFail @@ Lesson7,
    EvTestEnd @@ EmailA @@ ScoreGreat @@ CourseC2,
    EvTestEnd @@ EmailA @@ ScorePass @@ CourseEmpty,
    EvTestEnd @@ EmailBlank @@ ScoreGreat @@ CourseC1,
    EvTestEnd @@ ScoreGreat,
    EvOther @@ EmailA @@ ScoreGreat,
    EmailA @@ ScoreGreat }

(* a completed form: email passed got_email, age passed got_age *)
Profile(telegram_id, email) ==
  [ telegram_id |-> telegram_id, email |-> email, age |-> "30", gender |-> "M",
    country |-> "UA", language |-> "RU", english_level |-> "B1",
    amazon_experience |-> "none" ]

Profiles == { Profile(t, e) : t \in TelegramIds, e \in Emails }

(* lifespan(): the configuration read from the environment *)
Config(course, key) ==
  [ webhook_secret |-> "secret", expected_course_id |-> course,
    skillspace_api_key |-> key, pass_thr |-> 5000, great_thr |-> 8000 ]

Configs == { Config("C1", "K"), Config("", "K"), Config("C1", "") }

(* ---------------- state ---------------- *)
VARIABLES
  sheet,   \* rows 2.. of the worksheet
  clock,   \* number of utc_iso() readings so far
  cfg,     \* app.state configuration
  last,    \* the last request handled and what it did; last.repeat: it
           \* was the second of two successive processed deliveries of one event
  header_row,  \* the cells of worksheet row 1
  threads,  \* the store calls in flight in worker threads, by thread
  forms    \* the intake form of each chat user: FSM state and data

vars == << sheet, clock, cfg, last, header_row, threads, forms >>

(* ---------------- tunel.py : the intake form ---------------- *)
(* LeadForm: the FSM states in the order the handlers set them; "none" is  *)
(* the cleared state.  A form holds the FSM state and data of one chat     *)
(* user, the states set since the last state.clear() (trail) and the text  *)
(* of the last message handled (msg).                                      *)
LeadForm ==
  << "email", "age", "gender", "country", "language", "english_level",
     "amazon_experience" >>

Users == TelegramIds

NoData == [k \in {} |-> ""]
NoForm == [state |-> "none", data |-> NoData, trail |-> << >>, msg |-> ""]
NoForms == [u \in Users |-> NoForm]

(* data.get(key, "") *)
data_get(data, key) == IF key \in DOMAIN data THEN data[key] ELSE ""

(* "@" in s, "." in s, on the texts of the input sets *)
has_at(s) == s \in { "a@x.c", "b@x.c", "a@xc" }
has_dot(s) == s \in { "a@x.c", "b@x.c", "x.c" }

(* a validation that asks for the "@" only *)
valid_email_at_only(email) == has_at(email)

(* line 102: the check got_email makes *)
valid_email(email) == has_at(email) /\ has_dot(email)

(* a worker thread runs the store call of one request: pc is the call's    *)
(* position, vals the cells it is to write, keys their order, k the number *)
(* of cells written so far, row the row it resolved, notify the chat-user  *)
(* identifier it looked up                                                 *)
Tids == { 1, 2 }
IdleThread ==
  [pc |-> "idle", kind |-> "", email |-> "", telegram_id |-> 0,
   vals |-> [h \in HeaderSet |-> ""], keys |-> << >>, k |-> 0, row |-> None,
   notify |-> NoTelegram]
NoThreads == [t \in Tids |-> IdleThread]

(* the status recorded for a request that made no enrollment call *)
NoCall == -2

NoNotify == [to |-> NoTelegram, variant |-> "", failed |-> FALSE]
NoResp == [status |-> 0, ok |-> FALSE, tag |-> "", stage |-> "", email |-> ""]
NoProfile ==
  [ telegram_id |-> 0, email |-> "", age |-> "", gender |-> "", country |-> "",
    language |-> "", english_level |-> "", amazon_experience |-> "" ]

InitWith(configs) ==
  /\ threads = NoThreads
  /\ forms = NoForms
  /\ header_row = REQUIRED_HEADERS
  /\ sheet = << >>
  /\ clock = 0
  /\ cfg \in configs
  /\ last = [op |-> "none", token |-> "", payload |-> EmptyPayload,
             profile |-> NoProfile, resp |-> NoResp, notify |-> NoNotify,
             store_calls |-> 0, invites |-> 0, status |-> NoCall,
             reason |-> FALSE, repeat |-> FALSE]

Init == InitWith(Configs)

(* ---------------- app.py : skillspace_webhook ---------------- *)
(* The handler's outcome as a value: the worksheet after it, the response, *)
(* the notification asked of the bot, the number of SheetsClient calls and *)
(* whether utc_iso() was read.  f_update and f_lookup are the store faults *)
(* of the two SheetsClient calls, send_fails whether bot.send_message      *)
(* raises.                                                                 *)
(* a handler that accepts every token *)
authorized_always(token, secret) == TRUE

authorized(token, secret) == token = secret

(* an event filter that lets every named event through *)
qualifying_named(event_name) == event_name # ""

qualifying(event_name) == event_name = "test-end"

(* a filter that also rejects an event carrying no course id *)
course_mismatch_absent(expected, course_id) ==
  expected # "" /\ course_id.v # expected

(* line 343: the course filter *)
course_mismatch(expected, course_id) ==
  expected # "" /\ course_id.some /\ course_id.v # "" /\ course_id.v # expected

(* a delivery failure that propagates to the response *)
after_send_propagating(resp, send_fails) ==
  IF send_fails THEN [resp EXCEPT !.status = 500, !.ok = FALSE, !.tag = "error"]
  ELSE resp

(* lines 409-412: a failure of bot.send_message is logged and swallowed *)
after_send(resp, send_fails) == resp

Resp(status, ok, tag, stage, email) ==
  [status |-> status, ok |-> ok, tag |-> tag, stage |-> stage, email |-> email]

skillspace_webhook(ws, conf, now, token, payload, f_update, f_lookup, send_fails) ==
  LET event_name == extract_skillspace_event(payload)
      email == extract_email(payload)
      expected == strip(conf.expected_course_id)
      course_id == extract_course_id(payload)
      score == extract_lesson_score(payload)
      lesson_id == extract_lesson_id(payload)
      stage == classify(score, conf.pass_thr, conf.great_thr)
      upd == update_from_skillspace(ws, email, stage, utc_iso(now), event_name,
                                    score, lesson_id, course_id, f_update)
      look == get_telegram_id_by_email(upd.ws, email, f_lookup)
      telegram_id == look.ret
      quiet(resp) == [ws |-> ws, resp |-> resp, notify |-> NoNotify,
                      store_calls |-> 0, timed |-> FALSE]
  IN
  IF ~authorized(token, conf.webhook_secret)
    THEN quiet(Resp(401, FALSE, "bad_token", "", ""))
  ELSE IF extract_skillspace_event_raises(payload)
    THEN quiet(Resp(500, FALSE, "error", "", ""))
  ELSE IF ~qualifying(event_name)
    THEN quiet(Resp(200, TRUE, "ignored_event", "", ""))
  ELSE IF email = ""
    THEN quiet(Resp(200, TRUE, "email_not_found_in_payload", "", ""))
  ELSE IF course_mismatch(expected, course_id)
    THEN quiet(Resp(200, TRUE, "course_id_mismatch", "", ""))
  ELSE IF upd.raised
    THEN [ws |-> upd.ws, resp |-> Resp(500, FALSE, "error", "", ""),
          notify |-> NoNotify, store_calls |-> 1, timed |-> TRUE]
  ELSE IF look.raised
    THEN [ws |-> upd.ws, resp |-> Resp(500, FALSE, "error", "", ""),
          notify |-> NoNotify, store_calls |-> 2, timed |-> TRUE]
  ELSE IF telegram_id # NoTelegram /\ telegram_id # 0
    THEN [ws |-> upd.ws,
          resp |-> after_send(Resp(200, TRUE, "processed", stage, email), send_fails),
          notify |-> [to |-> telegram_id, variant |-> compose(score, stage),
                      failed |-> send_fails],
          store_calls |-> 2, timed |-> TRUE]
  ELSE [ws |-> upd.ws, resp |-> Resp(200, TRUE, "processed", stage, email),
        notify |-> NoNotify, store_calls |-> 2, timed |-> TRUE]

WebhookOver(tokens, payloads, faults, bound) ==
  /\ \E token \in tokens, payload \in payloads, f_update \in faults,
        f_lookup \in faults, send_fails \in BOOLEAN :
       \E r \in { skillspace_webhook(sheet, cfg, clock + 1, token, payload,
                                   f_update, f_lookup, send_fails) } :
          /\ r.timed => clock < bound
          /\ sheet' = r.ws
          /\ header_row' = IF r.store_calls > 0 THEN _ensure_schema(header_row)
                           ELSE header_row
          /\ clock' = IF r.timed THEN clock + 1 ELSE clock
          /\ last' = [op |-> "webhook", token |-> token,
                      payload |-> IF token = cfg.webhook_secret
                                    THEN payload ELSE EmptyPayload,
                      profile |-> NoProfile, resp |-> r.resp, notify |-> r.notify,
                      store_calls |-> r.store_calls, invites |-> 0,
                      status |-> NoCall, reason |-> FALSE,
                      repeat |-> /\ last.op = "webhook"
                                 /\ last.resp.tag = "processed"
                                 /\ r.resp.tag = "processed"
                                 /\ last.payload = payload]
  /\ UNCHANGED << cfg, threads, forms >>

(* ---------------- skillspace.py : invite_student ---------------- *)
(* status: the HTTP status of the response; Timeout when httpx raises an   *)
(* exception that carries a text, TimeoutSilent when it raises one whose   *)
(* text is empty.  Returns whether the call raised.                        *)
Timeout == 0
TimeoutSilent == -1
InviteStatuses == { 200, 204, 500, Timeout, TimeoutSilent }

invite_student(status) == status # 200

(* line 213: whether str(e) of the exception the call raised is non-empty *)
invite_reason(status) == status # TimeoutSilent

(* ---------------- app.py : on_lead_completed ---------------- *)
(* f_first and f_second are the store faults of the two upsert_lead calls. *)
(* message: the variant of the returned text; reason: whether it carries   *)
(* the "Причина" line.  An exception of the second upsert_lead is caught   *)
(* by the except of line 212 after invite_ok was set.                      *)
(* an enrollment switch that looks at the course id only *)
enrollment_enabled_by_course(conf) == conf.expected_course_id # ""

(* line 181: if expected_course_id and skillspace_api_key *)
enrollment_enabled(conf) ==
  conf.expected_course_id # "" /\ conf.skillspace_api_key # ""

LeadData(profile, stage) ==
  [ telegram_id |-> profile.telegram_id, email |-> profile.email,
    age |-> profile.age, gender |-> profile.gender, country |-> profile.country,
    language |-> profile.language, english_level |-> profile.english_level,
    amazon_experience |-> profile.amazon_experience, stage |-> stage ]

on_lead_completed(ws, conf, now, profile, status, f_first, f_second) ==
  LET first == upsert_lead(ws, LeadData(profile, "PROFILE_COLLECTED"),
                           utc_iso(now), f_first)
      enabled == enrollment_enabled(conf)
      invite_raised == invite_student(status)
      second == upsert_lead(first.ws, LeadData(profile, "INVITED_TO_COURSE"),
                            utc_iso(now), f_second)
  IN
  IF first.raised
    THEN [ws |-> first.ws, raised |-> TRUE, message |-> "", reason |-> FALSE,
          store_calls |-> 1, invites |-> 0]
  ELSE IF ~enabled
    THEN [ws |-> first.ws, raised |-> FALSE, message |-> "disabled",
          reason |-> TRUE, store_calls |-> 1, invites |-> 0]
  ELSE IF invite_raised
    THEN [ws |-> first.ws, raised |-> FALSE, message |-> "invite_failed",
          reason |-> invite_reason(status), store_calls |-> 1, invites |-> 1]
  ELSE [ws |-> second.ws, raised |-> FALSE, message |-> "invited",
        reason |-> FALSE, store_calls |-> 2, invites |-> 1]

IntakeOver(profiles, statuses, faults, bound) ==
  /\ clock < bound
  /\ \E profile \in profiles, status \in statuses, f_first \in faults,
        f_second \in faults :
       \E r \in { on_lead_completed(sheet, cfg, clock + 1, profile, status,
                                  f_first, f_second) } :
          /\ sheet' = r.ws
          /\ header_row' = _ensure_schema(header_row)
          /\ last' = [op |-> "intake", token |-> "", payload |-> EmptyPayload,
                      profile |-> profile,
                      resp |-> Resp(0, ~r.raised, r.message, "", profile.email),
                      notify |-> NoNotify, store_calls |-> r.store_calls,
                      invites |-> r.invites,
                      status |-> IF r.invites = 0 THEN NoCall ELSE status,
                      reason |-> r.reason, repeat |-> FALSE]
  /\ clock' = clock + 1
  /\ UNCHANGED << cfg, threads, forms >>

(* ---------------- the lifecycle, store reachable ---------------- *)
Webhook == WebhookOver(Tokens, Payloads, { NoFault }, MaxClock)

Intake == IntakeOver(Profiles, InviteStatuses, { NoFault }, MaxClock)

Next == Webhook \/ Intake

Spec == Init /\ [][Next]_vars

(* ---------------- the lifecycle, store calls may raise ---------------- *)
MaxFaultClock == 2

FaultPayloads ==
  { EvTestEnd @@ EmailA @@ ScoreGreat @@ Lesson7 @@ CourseC1,
    EvTestEnd @@ EmailA @@ CourseC1 }

WebhookFaulty == WebhookOver({ "secret" }, FaultPayloads, Faults, MaxFaultClock)

IntakeFaulty ==
  IntakeOver({ Profile(7, "a@x.c") }, { 200, 500 }, Faults, MaxFaultClock)

NextFaults == WebhookFaulty \/ IntakeFaulty

SpecFaults == Init /\ [][NextFaults]_vars

(* ---------------- scores against thresholds ---------------- *)
MaxScoreClock == 2

Thresholds == { 0, 5000, 8000, 10000 }

ScoreConfigs ==
  { [Config("", "") EXCEPT !.pass_thr = p, !.great_thr = g] :
      p \in Thresholds, g \in Thresholds }

RawScores ==
  { JFloat(0), JFloat(50), JFloat(99), JFloat(100), JFloat(4999), JInt(50),
    JFloat(5001), JFloat(7999), JInt(80), JFloat(8001), JInt(100), JFloat(12000),
    JInt(1), JFloat(-50), JStr("0.5"), JStr("abc"), JObj }

ScorePayloads ==
  { EvTestEnd @@ EmailA @@ ("lesson.score" :> v) : v \in RawScores }

WebhookScore == WebhookOver({ "secret" }, ScorePayloads, { NoFault }, MaxScoreClock)

IntakeScore ==
  IntakeOver({ Profile(7, "a@x.c") }, { 200 }, { NoFault }, MaxScoreClock)

NextScore == WebhookScore \/ IntakeScore

SpecScore == InitWith(ScoreConfigs) /\ [][NextScore]_vars

(* ---------------- payload shapes ---------------- *)
MaxShapeClock == 2

(* bodies whose top level is not an object, and objects whose candidate    *)
(* keys are missing, null or of the wrong type                             *)
ShapePayloads ==
  { TopLevel(JArr), TopLevel(JStr("test-end")), TopLevel(JInt(5)), TopLevel(JNull),
    EmptyPayload,
    EvTestEnd,
    ("event" :> JInt(5)) @@ ("data.event" :> JStr("test-end")) @@ EmailA,
    ("event" :> JNull) @@ ("name" :> JStr("test-end")) @@ ("user.email" :> JInt(5))
      @@ ("email" :> JStr("a@x.c")),
    EvTestEnd @@ ("user.email" :> JObj) @@ ("data.email" :> JArr),
    EvTestEnd @@ EmailA @@ ("lesson.score" :> JObj) @@ ("lesson.id" :> JObj)
      @@ ("course.id" :> JArr),
    EvTestEnd @@ EmailA @@ ("lesson.score" :> JArr) @@ ("lesson.id" :> JNull)
      @@ ("course_id" :> JInt(5)),
    EvTestEnd @@ EmailA @@ ("lesson.score" :> JNull) @@ ("data.lesson.score" :> JNull)
      @@ ("lesson.lesson_id" :> JFloat(150)) }

WebhookShapes == WebhookOver(Tokens, ShapePayloads, { NoFault }, MaxShapeClock)

IntakeShapes ==
  IntakeOver({ Profile(7, "a@x.c") }, { 200 }, { NoFault }, MaxShapeClock)

NextShapes == WebhookShapes \/ IntakeShapes

SpecShapes == Init /\ [][NextShapes]_vars

(* ---------------- schema healing of a header row ---------------- *)
MaxHeaderLen == 3

HeaderCells == { "created_at", " email ", "notes", "", "  " }

RECURSIVE Rows(_)
Rows(n) ==
  IF n = 0 THEN { << >> }
  ELSE Rows(n - 1) \cup { Append(r, c) : r \in { x \in Rows(n - 1) : Len(x) = n - 1 },
                                          c \in HeaderCells }

(* header rows that lack required columns, and complete ones: the          *)
(* canonical row, with a non-canonical column, with a blank cell inside    *)
HeaderRows ==
  Rows(MaxHeaderLen)
    \cup { REQUIRED_HEADERS, Append(REQUIRED_HEADERS, "notes"),
           << "notes", "" >> \o REQUIRED_HEADERS }

InitSchema ==
  /\ threads = NoThreads
  /\ forms = NoForms
  /\ header_row \in HeaderRows
  /\ sheet = << >>
  /\ clock = 0
  /\ cfg = Config("", "")
  /\ last = [op |-> "none", token |-> "", payload |-> EmptyPayload,
             profile |-> NoProfile, resp |-> NoResp, notify |-> NoNotify,
             store_calls |-> 0, invites |-> 0, status |-> NoCall,
             reason |-> FALSE, repeat |-> FALSE]

(* _get_ws: the worksheet is opened and its header row healed *)
EnsureSchema ==
  /\ header_row' = _ensure_schema(header_row)
  /\ last' = [last EXCEPT !.op = "ensure_schema"]
  /\ UNCHANGED << sheet, clock, cfg, threads, forms >>

NextSchema == EnsureSchema

SpecSchema == InitSchema /\ [][NextSchema]_vars

(* ---------------- overlapping requests ---------------- *)
(* Both handlers hand their SheetsClient calls to worker threads           *)
(* (anyio.to_thread.run_sync), so the calls of two requests interleave at  *)
(* the spreadsheet API calls: ws.find, ws.append_row, ws.update_cell,      *)
(* ws.cell.  Each of the two threads runs the store calls of one request.  *)
ThreadPayloads ==
  { EvTestEnd @@ EmailA @@ ScoreGreat @@ Lesson7 @@ CourseC1,
    EvTestEnd @@ EmailA @@ ScoreFail }

ThreadProfiles == { Profile(7, "a@x.c"), Profile(8, "a@x.c") }

(* an empty store, or the record of an earlier intake completion *)
InitThreads ==
  /\ threads = NoThreads
  /\ forms = NoForms
  /\ header_row = REQUIRED_HEADERS
  /\ clock \in { 0, 1 }
  /\ sheet = IF clock = 0 THEN << >>
             ELSE << values_map(LeadData(Profile(7, "a@x.c"), "PROFILE_COLLECTED"),
                                utc_iso(1)) >>
  /\ cfg = Config("", "")
  /\ last = [op |-> "none", token |-> "", payload |-> EmptyPayload,
             profile |-> NoProfile, resp |-> NoResp, notify |-> NoNotify,
             store_calls |-> 0, invites |-> 0, status |-> NoCall,
             reason |-> FALSE, repeat |-> FALSE]

(* app.py 346-371: a processed test-end event hands update_from_skillspace *)
(* to a worker thread                                                      *)
BeginWebhook(t) ==
  /\ threads[t].pc = "idle"
  /\ \E payload \in ThreadPayloads :
       LET score == extract_lesson_score(payload)
           stage == classify(score, cfg.pass_thr, cfg.great_thr)
       IN threads' = [threads EXCEPT ![t] =
            [IdleThread EXCEPT
               !.pc = "find", !.kind = "webhook",
               !.email = extract_email(payload),
               !.vals = skillspace_updates(stage, utc_iso(clock + 1),
                                           extract_skillspace_event(payload), score,
                                           extract_lesson_id(payload),
                                           extract_course_id(payload)),
               !.keys = SkillspaceKeys]]
  /\ clock' = clock + 1
  /\ UNCHANGED << sheet, cfg, last, header_row, forms >>

(* app.py 157-176: an intake completion hands upsert_lead to a worker      *)
(* thread                                                                  *)
BeginIntake(t) ==
  /\ threads[t].pc = "idle"
  /\ \E profile \in ThreadProfiles :
       threads' = [threads EXCEPT ![t] =
         [IdleThread EXCEPT
            !.pc = "find", !.kind = "intake",
            !.email = profile.email, !.telegram_id = profile.telegram_id,
            !.vals = values_map(LeadData(profile, "PROFILE_COLLECTED"),
                                utc_iso(clock + 1)),
            !.keys = REQUIRED_HEADERS]]
  /\ clock' = clock + 1
  /\ UNCHANGED << sheet, cfg, last, header_row, forms >>

(* sheets.py 148, 176-180 and 204-206: the row is resolved on the sheet as *)
(* it is now; upsert_lead reads the created_at of the row it found         *)
Find(t) ==
  /\ threads[t].pc = "find"
  /\ LET th == threads[t]
         byEmail == _find_row_by_email(sheet, th.email, NoFault)
         row == IF byEmail # None \/ th.kind = "webhook" THEN byEmail
                ELSE _find_row_by_telegram(sheet, th.telegram_id, NoFault)
     IN threads' = [threads EXCEPT ![t] =
          IF row = None
            THEN [th EXCEPT !.pc = IF th.kind = "webhook" THEN "lookup" ELSE "append"]
            ELSE [th EXCEPT
                    !.pc = "write", !.row = row,
                    !.vals = IF th.kind = "intake"
                               THEN [th.vals EXCEPT !["created_at"] =
                                       created_at_kept(strip(sheet[row].created_at),
                                                       th.vals["created_at"])]
                               ELSE th.vals]]
  /\ UNCHANGED << sheet, clock, cfg, last, header_row, forms >>

(* sheets.py 182-185 and 217-220: one ws.update_cell call *)
WriteCell(t) ==
  /\ threads[t].pc = "write"
  /\ LET th == threads[t]
         key == th.keys[th.k + 1]
     IN /\ sheet' = [sheet EXCEPT ![th.row][key] = th.vals[key]]
        /\ threads' = [threads EXCEPT ![t] =
             [th EXCEPT !.k = th.k + 1,
                        !.pc = IF th.k + 1 < Len(th.keys) THEN "write"
                               ELSE IF th.kind = "webhook" THEN "lookup"
                               ELSE "done"]]
  /\ UNCHANGED << clock, cfg, last, header_row, forms >>

(* sheets.py 169-173: ws.append_row *)
AppendRow(t) ==
  /\ threads[t].pc = "append"
  /\ sheet' = Append(sheet, threads[t].vals)
  /\ threads' = [threads EXCEPT ![t] =
       [threads[t] EXCEPT !.pc = "done", !.row = Len(sheet) + 1]]
  /\ UNCHANGED << clock, cfg, last, header_row, forms >>

(* app.py 374: get_telegram_id_by_email in a worker thread *)
Lookup(t) ==
  /\ threads[t].pc = "lookup"
  /\ threads' = [threads EXCEPT ![t] =
       [threads[t] EXCEPT
          !.pc = "done",
          !.notify = get_telegram_id_by_email(sheet, threads[t].email, NoFault).ret]]
  /\ UNCHANGED << sheet, clock, cfg, last, header_row, forms >>

NextThreads ==
  \E t \in Tids :
    \/ BeginWebhook(t)
    \/ BeginIntake(t)
    \/ Find(t)
    \/ WriteCell(t)
    \/ AppendRow(t)
    \/ Lookup(t)

SpecThreads == InitThreads /\ [][NextThreads]_vars

(* ---------------- the intake form, message by message ---------------- *)
MaxFormClock == 2

(* the texts a chat user sends, "/start" apart: FormTexts while the form   *)
(* asks for the email or the age, FieldTexts otherwise                     *)
FormTexts == { " a@x.c ", "a@xc", "30" }
FieldTexts == { " a@x.c ", "30" }

InitForm ==
  /\ forms = NoForms
  /\ threads = NoThreads
  /\ header_row = REQUIRED_HEADERS
  /\ sheet = << >>
  /\ clock = 0
  /\ cfg = Config("", "")
  /\ last = [op |-> "none", token |-> "", payload |-> EmptyPayload,
             profile |-> NoProfile, resp |-> NoResp, notify |-> NoNotify,
             store_calls |-> 0, invites |-> 0, status |-> NoCall,
             reason |-> FALSE, repeat |-> FALSE]

(* state.update_data(key=value); state.set_state(next) *)
advance(f, key, value, next, text) ==
  [state |-> next, data |-> (key :> value) @@ f.data,
   trail |-> Append(f.trail, next), msg |-> text]

(* lines 88-97 *)
start(u) ==
  /\ forms' = [forms EXCEPT ![u] =
       [state |-> "email", data |-> NoData, trail |-> << "email" >>, msg |-> "/start"]]
  /\ UNCHANGED << sheet, clock, cfg, last, header_row, threads >>

(* lines 99-107 *)
got_email(u, text) ==
  /\ forms[u].state = "email"
  /\ forms' = [forms EXCEPT ![u] =
       IF ~valid_email(strip(text)) THEN [forms[u] EXCEPT !.msg = text]
       ELSE advance(forms[u], "email", strip(text), "age", text)]
  /\ UNCHANGED << sheet, clock, cfg, last, header_row, threads >>

(* lines 109-117 *)
got_age(u, text) ==
  /\ forms[u].state = "age"
  /\ forms' = [forms EXCEPT ![u] =
       IF ~isdigit(strip(text)) THEN [forms[u] EXCEPT !.msg = text]
       ELSE advance(forms[u], "age", strip(text), "gender", text)]
  /\ UNCHANGED << sheet, clock, cfg, last, header_row, threads >>

(* lines 119-123 *)
got_gender(u, text) ==
  /\ forms[u].state = "gender"
  /\ forms' = [forms EXCEPT ![u] = advance(forms[u], "gender", strip(text), "country", text)]
  /\ UNCHANGED << sheet, clock, cfg, last, header_row, threads >>

(* lines 125-129 *)
got_country(u, text) ==
  /\ forms[u].state = "country"
  /\ forms' = [forms EXCEPT ![u] = advance(forms[u], "country", strip(text), "language", text)]
  /\ UNCHANGED << sheet, clock, cfg, last, header_row, threads >>

(* lines 131-135 *)
got_language(u, text) ==
  /\ forms[u].state = "language"
  /\ forms' = [forms EXCEPT ![u] =
       advance(forms[u], "language", strip(text), "english_level", text)]
  /\ UNCHANGED << sheet, clock, cfg, last, header_row, threads >>

(* lines 137-141 *)
got_level(u, text) ==
  /\ forms[u].state = "english_level"
  /\ forms' = [forms EXCEPT ![u] =
       advance(forms[u], "english_level", strip(text), "amazon_experience", text)]
  /\ UNCHANGED << sheet, clock, cfg, last, header_row, threads >>

(* lines 143-173: the profile is built from the data, the completion       *)
(* callback runs, the state is cleared                                     *)
got_exp(u, text) ==
  /\ forms[u].state = "amazon_experience"
  /\ clock < MaxFormClock
  /\ LET data == forms[u].data
         profile == [telegram_id |-> u,
                     email |-> data_get(data, "email"),
                     age |-> data_get(data, "age"),
                     gender |-> data_get(data, "gender"),
                     country |-> data_get(data, "country"),
                     language |-> data_get(data, "language"),
                     english_level |-> data_get(data, "english_level"),
                     amazon_experience |-> strip(text)]
     IN \E r \in { on_lead_completed(sheet, cfg, clock + 1, profile, 200,
                                     NoFault, NoFault) } :
          /\ sheet' = r.ws
          /\ header_row' = _ensure_schema(header_row)
          /\ last' = [op |-> "intake", token |-> "", payload |-> EmptyPayload,
                      profile |-> profile,
                      resp |-> Resp(0, ~r.raised, r.message, "", profile.email),
                      notify |-> NoNotify, store_calls |-> r.store_calls,
                      invites |-> r.invites,
                      status |-> IF r.invites = 0 THEN NoCall ELSE 200,
                      reason |-> r.reason, repeat |-> FALSE]
  /\ clock' = clock + 1
  /\ forms' = [forms EXCEPT ![u] = [NoForm EXCEPT !.msg = text]]
  /\ UNCHANGED << cfg, threads >>

(* a text that no handler takes: the form is in the cleared state *)
unhandled(u, text) ==
  /\ forms[u].state = "none"
  /\ forms' = [forms EXCEPT ![u].msg = text]
  /\ UNCHANGED << sheet, clock, cfg, last, header_row, threads >>

NextForm ==
  \E u \in Users :
    \/ start(u)
    \/ \E text \in FormTexts :
         \/ got_email(u, text)
         \/ got_age(u, text)
    \/ \E text \in FieldTexts :
         \/ got_gender(u, text)
         \/ got_country(u, text)
         \/ got_language(u, text)
         \/ got_level(u, text)
         \/ got_exp(u, text)
         \/ unhandled(u, text)

SpecForm == InitForm /\ [][NextForm]_vars

(* ---------------- properties ---------------- *)
TestStages == { "TEST_FAILED", "TEST_PASSED", "TEST_GREAT" }

HistoryFields == { "stage", "last_event", "lesson_score", "lesson_id", "course_id" }

(* the step is a request of the given kind being handled *)
WebhookStep == last'.op = "webhook" /\ vars' # vars
AuthedStep == WebhookStep /\ last'.token = cfg.webhook_secret

(* C1: when a test-end event that was processed for email e is delivered   *)
(* and processed again right after, every record holding e keeps its       *)
(* stage, last_event, lesson_score, lesson_id and course_id, and no        *)
(* webhook delivery changes the number of records.                         *)
C1_DuplicateDeliveryIdempotent ==
  [][ WebhookStep =>
        /\ Len(sheet') = Len(sheet)
        /\ last'.repeat =>
             \A i \in DOMAIN sheet :
               sheet[i].email = last.resp.email =>
                 \A h \in HistoryFields : sheet'[i][h] = sheet[i][h] ]_vars

C1_Witness ==
  /\ last.op = "webhook" /\ last.repeat
  /\ \E i \in DOMAIN sheet :
       /\ sheet[i].email = last.resp.email
       /\ sheet[i].last_event = "test-end"
       /\ sheet[i].stage = "TEST_GREAT"

(* C2: a second, identical delivery of a test-end event does not ask the   *)
(* bot to notify the chat user the first delivery already notified.        *)
C2_NeverDoubleNotify ==
  [][ (WebhookStep /\ last'.repeat /\ last.notify.to # NoTelegram)
        => last'.notify.to # last.notify.to ]_vars

(* C3: a processed test-end event without a parseable score leaves the     *)
(* stage of the resolved record as it was, and writes last_event and       *)
(* updated_at.                                                             *)
C3_NoScoreKeepsStage ==
  [][ (WebhookStep /\ last'.resp.tag = "processed"
         /\ ~extract_lesson_score(last'.payload).some)
        => LET row == _find_row_by_email(sheet, last'.resp.email, NoFault)
           IN row # None =>
                /\ sheet'[row].stage = sheet[row].stage
                /\ sheet'[row].last_event = "test-end"
                /\ sheet'[row].updated_at = utc_iso(clock') ]_vars

C3_FailingInput ==
  /\ last.op = "webhook" /\ last.resp.tag = "processed"
  /\ ~extract_lesson_score(last.payload).some
  /\ \E i \in DOMAIN sheet : sheet[i].email = last.resp.email

(* the score of the last request, after normalisation *)
LastScore == extract_lesson_score(last.payload)

(* the records the last request's email resolves to *)
LastRow == _find_row_by_email(sheet, extract_email(last.payload), NoFault)

(* C4: for a processed test-end event with score s and thresholds p <= g,  *)
(* the stage handed to the store, and held by the resolved record, is      *)
(* TEST_GREAT iff s >= g, TEST_PASSED iff p <= s < g, TEST_FAILED iff      *)
(* s < p.                                                                  *)
C4_ScoreClassification ==
  (/\ last.op = "webhook" /\ last.resp.tag = "processed"
   /\ LastScore.some /\ cfg.pass_thr <= cfg.great_thr)
    => LET s == LastScore.v
           p == cfg.pass_thr
           g == cfg.great_thr
           st == last.resp.stage
       IN /\ st \in TestStages
          /\ (st = "TEST_GREAT") <=> (s >= g)
          /\ (st = "TEST_PASSED") <=> (p <= s /\ s < g)
          /\ (st = "TEST_FAILED") <=> (s < p)
          /\ LastRow # None => sheet[LastRow].stage = st

C4_Witness ==
  /\ last.op = "webhook" /\ last.resp.tag = "processed"
  /\ LastScore.some /\ cfg.pass_thr < cfg.great_thr
  /\ LastScore.v = cfg.pass_thr
  /\ LastRow # None /\ sheet[LastRow].stage = "TEST_PASSED"

(* the step handles an authenticated test-end event that carries an email *)
TestEndStep ==
  /\ AuthedStep
  /\ extract_skillspace_event(last'.payload) = "test-end"
  /\ extract_email(last'.payload) # ""

Ignored(tag) ==
  /\ last'.resp.status = 200 /\ last'.resp.ok /\ last'.resp.tag = tag
  /\ sheet' = sheet
  /\ last'.store_calls = 0
  /\ last'.notify = NoNotify

(* the event was processed: the resolved record, if any, was updated, and  *)
(* a notification was attempted iff it stores a chat-user identifier       *)
Processed ==
  /\ last'.resp.tag = "processed" /\ last'.resp.ok
  /\ LET row == _find_row_by_email(sheet, last'.resp.email, NoFault)
     IN /\ row # None =>
             /\ sheet'[row].stage = last'.resp.stage
             /\ sheet'[row].last_event = "test-end"
             /\ (last'.notify.to # NoTelegram) <=> isdigit(sheet[row].telegram_id)
        /\ row = None => sheet' = sheet /\ last'.notify = NoNotify

(* C5 as stated: with an expected course id configured, every test-end     *)
(* event whose course id is present and different is ignored.              *)
C5_PresentAndDifferentIgnored ==
  [][ TestEndStep =>
        LET c == extract_course_id(last'.payload)
        IN (cfg.expected_course_id # "" /\ c.some /\ c.v # cfg.expected_course_id)
             => Ignored("course_id_mismatch") ]_vars

(* C5: with an expected course id configured, a test-end event whose       *)
(* course id is present, non-empty and different is acknowledged with no   *)
(* change to any record, no store call and no notification; an event with  *)
(* no course id, or an empty one, is processed; with no expected course id *)
(* configured every event is processed.                                    *)
C5_CourseFilter ==
  [][ TestEndStep =>
        LET c == extract_course_id(last'.payload)
            e == cfg.expected_course_id
        IN IF e # "" /\ c.some /\ c.v # "" /\ c.v # e
             THEN Ignored("course_id_mismatch")
             ELSE Processed ]_vars

C5_Witness ==
  /\ last.op = "webhook" /\ last.resp.tag = "course_id_mismatch"
  /\ LastRow # None
  /\ sheet[LastRow].stage = "INVITED_TO_COURSE"

(* no candidate path of the payload holds a string with text in it *)
NoEmailIn(payload) ==
  \A i \in DOMAIN EmailPaths :
    EmailPaths[i] \in DOMAIN payload =>
      \/ payload[EmailPaths[i]].t # "str"
      \/ payload[EmailPaths[i]].s \in { "", "  " }

(* C6: an authenticated test-end event from which no non-empty trimmed     *)
(* email can be extracted is acknowledged with ok=true and the             *)
(* email-not-found indicator, makes no store call, changes no record and   *)
(* attempts no notification.                                               *)
C6_UnmatchedIdentity ==
  [][ (/\ AuthedStep
       /\ extract_skillspace_event(last'.payload) = "test-end"
       /\ NoEmailIn(last'.payload))
        => Ignored("email_not_found_in_payload") ]_vars

C6_Witness ==
  /\ last.op = "webhook" /\ last.resp.tag = "email_not_found_in_payload"
  /\ "user.email" \in DOMAIN last.payload
  /\ Len(sheet) > 0

(* C7: a webhook request whose token differs from the configured secret is *)
(* answered 401 and causes no store call, no change to a record, no        *)
(* enrollment call and no notification.                                    *)
C7_BadTokenNoEffects ==
  [][ (WebhookStep /\ last'.token # cfg.webhook_secret)
        => /\ last'.resp.status = 401 /\ ~last'.resp.ok
           /\ sheet' = sheet /\ clock' = clock
           /\ last'.store_calls = 0 /\ last'.invites = 0
           /\ last'.notify = NoNotify ]_vars

C7_Witness ==
  /\ last.op = "webhook" /\ last.token = "wrong" /\ last.resp.status = 401
  /\ Len(sheet) > 0

(* C8: every authenticated webhook request is answered with ok=true, also  *)
(* when a store call of the handler raises.                                *)
C8_AlwaysAcknowledged ==
  (last.op = "webhook" /\ last.token = cfg.webhook_secret)
    => last.resp.status = 200 /\ last.resp.ok

(* C9: when the bot raises while delivering the notification, the response *)
(* is the ok=true acknowledgment of a processed event and the resolved     *)
(* record holds the update made for the event.                             *)
C9_DeliveryFailureSwallowed ==
  (last.op = "webhook" /\ last.notify.failed)
    => /\ last.resp.status = 200 /\ last.resp.ok /\ last.resp.tag = "processed"
       /\ last.resp.stage = classify(LastScore, cfg.pass_thr, cfg.great_thr)
       /\ LastRow # None
       /\ sheet[LastRow].stage = last.resp.stage
       /\ sheet[LastRow].last_event = "test-end"
       /\ sheet[LastRow].updated_at = utc_iso(clock)

C9_Witness ==
  /\ last.op = "webhook" /\ last.notify.failed /\ last.notify.to = 7
  /\ last.resp.stage = "TEST_GREAT"

(* C10: once a record's stage is TEST_FAILED, TEST_PASSED or TEST_GREAT,   *)
(* no intake completion or webhook delivery sets it to PROFILE_COLLECTED   *)
(* or INVITED_TO_COURSE.                                                   *)
C10_StageNeverRegresses ==
  [][ \A i \in DOMAIN sheet :
        sheet[i].stage \in TestStages
          => sheet'[i].stage \notin { "PROFILE_COLLECTED", "INVITED_TO_COURSE" } ]_vars

(* the step is an intake completion being handled *)
IntakeStep == last'.op = "intake" /\ vars' # vars

(* the record upsert_lead resolves the profile of the step to: by email    *)
(* first, by chat-user identifier otherwise; None when there is none       *)
IntakeRow ==
  LET byEmail == _find_row_by_email(sheet, last'.profile.email, NoFault)
  IN IF byEmail # None THEN byEmail
     ELSE _find_row_by_telegram(sheet, last'.profile.telegram_id, NoFault)

SkillspaceFields == { "last_event", "lesson_score", "lesson_id", "course_id" }

(* C11: an intake completion that resolves to an already existing record   *)
(* leaves that record's last_event, lesson_score, lesson_id and course_id  *)
(* as they were before it.                                                 *)
C11_IntakeKeepsHistory ==
  [][ (IntakeStep /\ IntakeRow # None)
        => \A h \in SkillspaceFields :
             sheet'[IntakeRow][h] = sheet[IntakeRow][h] ]_vars

(* C12: once a record holds a non-empty created_at, no intake completion   *)
(* (resolving it by email or by chat-user identifier) and no webhook       *)
(* delivery changes it.                                                    *)
C12_CreatedAtWriteOnce ==
  [][ \A i \in DOMAIN sheet :
        sheet[i].created_at # "" => sheet'[i].created_at = sheet[i].created_at ]_vars

(* a record created at T1 was updated by a webhook delivery and then by an *)
(* intake completion *)
C12_Witness ==
  /\ last.op = "intake" /\ clock = 3
  /\ \E i \in DOMAIN sheet :
       /\ sheet[i].created_at = "T1"
       /\ sheet[i].updated_at = "T3"
       /\ sheet[i].telegram_id = ToString(last.profile.telegram_id)
       /\ sheet[i].email = last.profile.email

C14_IdentityKeysAgree ==
  /\ \A i \in DOMAIN sheet :
       (sheet[i].email # "" /\ sheet[i].telegram_id # "")
         => ws_find(sheet, sheet[i].telegram_id) = ws_find(sheet, sheet[i].email)
  /\ \A i, j \in DOMAIN sheet :
       (i # j /\ sheet[i].telegram_id # "")
         => sheet[i].telegram_id # sheet[j].telegram_id

(* enrollment is configured: a course id and an API key are set *)
EnrollmentEnabled == cfg.expected_course_id # "" /\ cfg.skillspace_api_key # ""

(* the record the profile of the last intake completion resolves to *)
LastIntakeRow == _find_row_by_email(sheet, last.profile.email, NoFault)

(* C15: after an intake completion with enrollment configured, at most one *)
(* enrollment call was made; the record's stage is INVITED_TO_COURSE when  *)
(* the call was answered with a 2xx status, and PROFILE_COLLECTED, with    *)
(* the reason in the returned message, when it was answered otherwise or   *)
(* timed out.                                                              *)
C15_IntakeStageOutcome ==
  (last.op = "intake" /\ EnrollmentEnabled)
    => /\ last.resp.ok
       /\ last.invites <= 1
       /\ LastIntakeRow # None
       /\ IF last.status \in 200 .. 299
            THEN sheet[LastIntakeRow].stage = "INVITED_TO_COURSE"
            ELSE /\ sheet[LastIntakeRow].stage = "PROFILE_COLLECTED"
                 /\ last.resp.tag = "invite_failed"
                 /\ last.reason

(* C16: with the course id or the API key missing, an intake completion    *)
(* makes no enrollment call, leaves the record's stage at                  *)
(* PROFILE_COLLECTED and returns the enrollment-disabled message, with the *)
(* reason in it.                                                           *)
C16_EnrollmentDisabled ==
  (last.op = "intake" /\ ~EnrollmentEnabled)
    => /\ last.invites = 0 /\ last.status = NoCall
       /\ last.resp.ok /\ last.resp.tag = "disabled" /\ last.reason
       /\ last.store_calls = 1
       /\ LastIntakeRow # None
       /\ sheet[LastIntakeRow].stage = "PROFILE_COLLECTED"

(* an intake completion without an API key resolved to a record that an    *)
(* earlier request created *)
C16_Witness ==
  /\ last.op = "intake" /\ last.resp.tag = "disabled"
  /\ cfg.expected_course_id = "C1" /\ cfg.skillspace_api_key = ""
  /\ LastIntakeRow # None
  /\ sheet[LastIntakeRow].created_at # sheet[LastIntakeRow].updated_at

(* C17: the enrollment call of an intake completion returns without        *)
(* raising exactly when the response status is a 2xx, and raises for every *)
(* other status.                                                           *)
C17_InviteSucceedsOn2xx ==
  (last.op = "intake" /\ last.invites = 1 /\ last.status \notin { Timeout, TimeoutSilent })
    => (last.status \in 200 .. 299 <=> ~invite_student(last.status))

(* the step heals the header row *)
EnsureSchemaStep == last'.op = "ensure_schema" /\ vars' # vars

(* every required column is named by a cell of the row *)
Complete(cells) ==
  \A h \in HeaderSet : \E i \in DOMAIN cells : strip(cells[i]) = h

(* C18: schema healing leaves every required column present; every cell of *)
(* the existing header row, named or blank, keeps its index, so that a     *)
(* column's data stays under its name and missing columns are written      *)
(* only to the right of the row; an empty row becomes the canonical list;  *)
(* a complete row is not changed.                                          *)
C18_SchemaHealingPreservesPositions ==
  [][ EnsureSchemaStep =>
        /\ Complete(header_row')
        /\ \A i \in DOMAIN row_values(header_row) :
             /\ i \in DOMAIN header_row'
             /\ strip(header_row'[i]) = strip(header_row[i])
        /\ row_values(header_row) = << >> => header_row' = REQUIRED_HEADERS
        /\ Complete(header_row) => header_row' = header_row ]_vars

(* C19: an authenticated webhook request is acknowledged with ok=true      *)
(* whatever the shape of its JSON body: no extraction raises for a body    *)
(* whose top level is an object, an array, a string, a number or null, or  *)
(* whose candidate keys are missing, null or of the wrong type.            *)
C19_NormalizationNeverRaises ==
  (last.op = "webhook" /\ last.token = cfg.webhook_secret)
    => /\ ~extract_skillspace_event_raises(last.payload)
       /\ last.resp.status = 200 /\ last.resp.ok
       /\ last.resp.tag \in { "ignored_event", "email_not_found_in_payload",
                              "course_id_mismatch", "processed" }

(* the raw score of the last request: the first candidate that is not null *)
LastRawScore ==
  LET s1 == deep_get(last.payload, "lesson.score")
  IN IF s1.t = "null" THEN deep_get(last.payload, "data.lesson.score") ELSE s1

(* C20: for a processed test-end event, the score written to the resolved  *)
(* record is 100*x for a raw numeric score x with 0 <= x < 1, and x itself *)
(* for x = 1, x > 1 and x < 0; a raw value that is not numeric leaves the  *)
(* score absent.  A raw value is numeric when float() converts it; x is in *)
(* hundredths.                                                             *)
C20_FractionNormalization ==
  (last.op = "webhook" /\ last.resp.tag = "processed" /\ LastRow # None)
    => LET x == float(LastRawScore)
       IN sheet[LastRow].lesson_score =
            IF ~x.some THEN ""
            ELSE IF 0 <= x.v /\ x.v < 100 THEN str_float(100 * x.v)
            ELSE str_float(x.v)

(* the raw score 0.99 was written as 99.0 *)
C20_Witness ==
  /\ last.op = "webhook" /\ last.resp.tag = "processed" /\ LastRow # None
  /\ LastRawScore = JFloat(99)
  /\ sheet[LastRow].lesson_score = "99.0"

(* C21: an authenticated webhook request whose extracted event name is not *)
(* "test-end" (the empty name included) is acknowledged with ok=true and   *)
(* makes no store call, changes no record and attempts no notification.    *)
C21_NonQualifyingInert ==
  [][ (/\ AuthedStep
       /\ ~extract_skillspace_event_raises(last'.payload)
       /\ extract_skillspace_event(last'.payload) # "test-end")
        => /\ Ignored("ignored_event")
           /\ clock' = clock /\ header_row' = header_row ]_vars

(* a lesson-end event for the email of a stored record was ignored *)
C21_Witness ==
  /\ last.op = "webhook" /\ last.resp.tag = "ignored_event"
  /\ extract_skillspace_event(last.payload) = "lesson-end"
  /\ LastRow # None

(* the text variant that belongs to a stage *)
VariantsOf(stage) ==
  CASE stage = "TEST_GREAT" -> { "great" }
    [] stage = "TEST_PASSED" -> { "passed" }
    [] stage = "TEST_FAILED" -> { "contact", "no_score" }
    [] OTHER -> { }

BothDone == \A t \in Tids : threads[t].pc = "done"

(* C23: when two updates of one record, by two webhook deliveries or by a  *)
(* webhook delivery and an intake completion, have both finished, the      *)
(* record's stage, last_event, lesson_score, lesson_id and course_id are   *)
(* the values one of the two wrote, all five from the same one.            *)
C23_LastWriteWins ==
  (/\ BothDone
   /\ threads[1].row # None /\ threads[1].row = threads[2].row
   /\ threads[1].k > 0 /\ threads[2].k > 0
   /\ \E t \in Tids : threads[t].kind = "webhook")
    => \E t \in Tids :
         \A h \in HistoryFields : sheet[threads[t].row][h] = threads[t].vals[h]

(* C24: when two intake completions that carry the same, previously unseen *)
(* email have both finished, the store holds one record for that email.    *)
C24_ConcurrentIntakesOneRecord ==
  (/\ BothDone
   /\ \A t \in Tids : threads[t].kind = "intake"
   /\ threads[1].email = threads[2].email)
    => Cardinality({ i \in DOMAIN sheet : sheet[i].email = threads[1].email }) = 1

(* C25: the record an intake completion resolves to holds the profile's    *)
(* email in its email field, or, when no record holds that email, the      *)
(* profile's chat-user identifier in its telegram_id field; the record a   *)
(* webhook delivery resolves to holds the event's email in its email       *)
(* field.                                                                  *)
C25_IdentityColumnOnly ==
  [][ /\ (IntakeStep /\ IntakeRow # None)
         => \/ sheet[IntakeRow].email = last'.profile.email
            \/ /\ \A i \in DOMAIN sheet : sheet[i].email # last'.profile.email
               /\ sheet[IntakeRow].telegram_id = ToString(last'.profile.telegram_id)
      /\ (WebhookStep /\ last'.resp.tag = "processed")
         => LET row == _find_row_by_email(sheet, last'.resp.email, NoFault)
            IN row # None => sheet[row].email = last'.resp.email ]_vars

(* C26: an authenticated test-end event whose email is extracted but is    *)
(* the email of no record creates and changes no record, attempts no       *)
(* notification and is acknowledged with ok=true.                          *)
C26_UnknownEmailDiscarded ==
  [][ (TestEndStep /\ \A i \in DOMAIN sheet : sheet[i].email # extract_email(last'.payload))
        => /\ sheet' = sheet
           /\ last'.notify = NoNotify
           /\ last'.resp.status = 200 /\ last'.resp.ok ]_vars

(* an event for b@x.c was processed by a store that holds a record of      *)
(* a@x.c only                                                              *)
C26_Witness ==
  /\ last.op = "webhook" /\ last.resp.tag = "processed"
  /\ last.resp.email = "b@x.c"
  /\ last.store_calls = 2
  /\ Len(sheet) = 1 /\ sheet[1].email = "a@x.c"

(* the step is the completion of the form of chat user u *)
CompletionBy(u) ==
  /\ clock' = clock + 1
  /\ last'.op = "intake" /\ last'.profile.telegram_id = u

(* the state that follows state st in LeadForm, "none" after the last *)
NextState(st) ==
  IF \E i \in 1..(Len(LeadForm) - 1) : LeadForm[i] = st
  THEN LeadForm[(CHOOSE i \in 1..(Len(LeadForm) - 1) : LeadForm[i] = st) + 1]
  ELSE "none"

====
